---- MODULE Spec2Model ----
(***************************************************************************)
(* Model of dmriphantomutils/fit_dki.py: the command line entry point,     *)
(* main, fit_dki and save_metric_imgs, with the calls they make into the   *)
(* collaborators (image_io, dipy's DiffusionKurtosisModel, scipy's         *)
(* gaussian_filter) recorded in call logs.  Arrays are terms: a shape and  *)
(* a description of the voxel content.                                     *)
(***************************************************************************)
EXTENDS Integers, Sequences, FiniteSets, TLC

\* ------------------------------------------------------------------ bounds

\* largest extent of a spatial axis of the voxel arrays that are enumerated
MaxDim == 2
\* largest number of gradient directions (length of the fourth axis)
MaxGrad == 2

\* ------------------------------------------------------- values and helpers

\* Python's None, as the value of an optional path argument
None == "None"

\* a variable that is not bound yet
Null == [null |-> TRUE]

\* variant: the blocks of fa and md in the other order
SlotOrderSwapped == <<"md", "fa", "ad", "rd", "mk", "ak", "rk">>

\* the seven keyword parameters of save_metric_imgs, in the order of its body
SlotOrder == <<"fa", "md", "ad", "rd", "mk", "ak", "rk">>

NumSlots == Len(SlotOrder)

Kinds == {SlotOrder[i] : i \in 1..NumSlots}

\* dkifit.fa, .md, .ad, .rd are attributes; mk, ak, rk are methods that are called
AccessorKinds == {"mk", "ak", "rk"}

\* file names that the output flags may carry; the k-th distinct one is OutNames[k]
OutNames == <<"o1.nii", "o2.nii", "o3.nii", "o4.nii", "o5.nii", "o6.nii", "o7.nii">>

RECURSIVE MaxOf(_)
MaxOf(s) == IF s = <<>> THEN 0
            ELSE LET m == MaxOf(Tail(s)) IN IF Head(s) > m THEN Head(s) ELSE m

\* Assignments of path numbers to n slots (0: no path), one for each pattern of
\* equal and different paths: a new path always takes the next unused number.
RECURSIVE PathPatterns(_)
PathPatterns(n) ==
    IF n = 0 THEN {<<>>}
    ELSE UNION {{Append(s, v) : v \in 0..(MaxOf(s) + 1)} : s \in PathPatterns(n - 1)}

PathOf(v) == IF v = 0 THEN None ELSE OutNames[v]

SlotIndex(kind) == CHOOSE i \in 1..NumSlots : SlotOrder[i] = kind

\* every way of giving or omitting the seven output paths, up to renaming the paths
PathArgs == {[k \in Kinds |-> PathOf(pat[SlotIndex(k)])] : pat \in PathPatterns(NumSlots)}

\* voxel arrays of a DWI: three spatial axes and the gradient axis
Shapes == {<<x, y, z, g>> : x \in 1..MaxDim, y \in 1..MaxDim, z \in 1..MaxDim, g \in 1..MaxGrad}

Index3(s) == (1..s[1]) \X (1..s[2]) \X (1..s[3])

\* affine and header of the source images that are enumerated
Affines == {"affine_A", "affine_B"}
Headers == {"header_A", "header_B"}

\* masks a mask file may hold for a spatial shape: nothing, everything, a checkerboard
MaskFiles(s3) == {[shape |-> s3, vox |-> [i \in Index3(s3) |-> 0]],
                  [shape |-> s3, vox |-> [i \in Index3(s3) |-> 1]],
                  [shape |-> s3, vox |-> [i \in Index3(s3) |-> (i[1] + i[2] + i[3]) % 2]]}

RawData(s) == [shape |-> s, vox |-> <<"raw">>]

\* the image object of a DWI record: voxel data, affine and header
Images == {[data |-> RawData(s), affine |-> a, header |-> h] :
             s \in Shapes, a \in Affines, h \in Headers}

GtabOf(img) == [ngrad |-> img.data.shape[4]]

\* DWI records: the mask attribute exists only when a mask was loaded
DwiNoMask(img) == [img |-> img, gtab |-> GtabOf(img)]
DwiMasked(img, m) == [img |-> img, gtab |-> GtabOf(img), mask |-> m]

DwiRecords == {DwiNoMask(img) : img \in Images}
              \cup UNION {{DwiMasked(img, m) : m \in MaskFiles(SubSeq(img.data.shape, 1, 3))} :
                            img \in Images}

\* ------------------------------------------------------ the collaborators

\* image_io.Dwi.getImage(): the voxel array of the record's image
getImage(d) == d.img.data

\* dki.DiffusionKurtosisModel(gtab)
DiffusionKurtosisModel(gtab) == [gtab |-> gtab]

\* variant: the third spatial axis is smoothed as well
BlurSigmaAllAxes == <<5, 5, 5, 0>>

\* sigma of the smoothing, one entry per axis, in tenths (5 is 0.5)
BlurSigma == <<5, 5, 0, 0>>

\* ndi.gaussian_filter(input, sigma): an array of the input's shape
gaussian_filter(input, sigma) ==
    [shape |-> input.shape, vox |-> <<"gaussian_filter", input.vox, sigma>>]

\* variant: data.shape[1:]
LastThree(shape) == SubSeq(shape, 2, 4)

\* data.shape[:3]
FirstThree(shape) == SubSeq(shape, 1, 3)

\* np.ones(shape) for a three-dimensional shape
np_ones(shape) == [shape |-> shape, vox |-> [i \in Index3(shape) |-> 1]]

\* dkimodel.fit(data, mask): the fit result
ModelFit(model, d, m) == [model |-> model, data |-> d, mask |-> m]

\* a parameter map of a fit result: dkifit.fa, dkifit.mk(), ...
Metric(fit, kind) == [kind |-> kind, fit |-> fit]

\* variant: blur=True as the default
BlurParamDefaultTrue(arg) == IF arg = "omitted" THEN TRUE ELSE arg = "True"

\* fit_dki's parameter blur, with its default
BlurParam(arg) == IF arg = "omitted" THEN FALSE ELSE arg = "True"

\* the try / except AttributeError around dwi.mask
HasMask(d) == "mask" \in DOMAIN d

\* variant: the mask of the record is ignored
MaskForOnes(d, dat) == np_ones(FirstThree(dat.shape))

MaskFor(d, dat) == IF HasMask(d) THEN d.mask ELSE np_ones(FirstThree(dat.shape))

\* variant: the test of the path is missing
PathGivenAlways(p) == TRUE

\* `path is not None`
PathGiven(p) == p # None

\* the file save_image leaves at a path
FileOf(a, affine, header) == [arr |-> a, affine |-> affine, header |-> header]

WriteFile(d, path, file) ==
    [p \in (DOMAIN d) \cup {path} |-> IF p = path THEN file ELSE d[p]]

NoFiles == [p \in {} |-> Null]

\* ------------------------------------------------------------------ state

VARIABLES
    pc,             \* the statement the run is at
    failedAt,       \* the call that raised, or "none"
    argv,           \* the namespace argparse returns
    mainArgs,       \* main's parameters
    dwi,            \* the DWI record
    blurArg,        \* fit_dki: the blur argument as passed ("omitted": not passed)
    blur,           \* fit_dki: the parameter blur
    dkimodel,       \* fit_dki: local
    data,           \* fit_dki: local
    mask,           \* fit_dki: local
    smoothCalls,    \* calls of ndi.gaussian_filter: input, sigma, output
    fitCalls,       \* calls of dkimodel.fit: model, data, mask
    dkifit,         \* the fit result
    paths,          \* save_metric_imgs: the seven path parameters
    source_affine,  \* save_metric_imgs: local
    source_header,  \* save_metric_imgs: local
    slot,           \* save_metric_imgs: the `if` the run is at, 1..7, 8 past the last
    arr,            \* save_metric_imgs: the evaluated first argument of save_image
    accessorCalls,  \* calls of dkifit.mk(), .ak(), .rk(), by kind
    saveCalls,      \* calls of image_io.save_image that returned
    disk            \* the output files: path -> file

cliVars == <<argv, mainArgs>>
fitLocals == <<blurArg, blur, dkimodel, data, mask>>
fitLogs == <<smoothCalls, fitCalls>>
saveLocals == <<paths, source_affine, source_header, slot, arr>>
saveLogs == <<accessorCalls, saveCalls, disk>>

vars == <<pc, failedAt, argv, mainArgs, dwi, blurArg, blur, dkimodel, data, mask,
          smoothCalls, fitCalls, dkifit, paths, source_affine, source_header, slot,
          arr, accessorCalls, saveCalls, disk>>

\* an exception that nothing catches: the run ends at the call that raised
Propagate(step) == pc' = "failed" /\ failedAt' = step

\* ---------------------------------------------------------------- fit_dki

\* def fit_dki(dwi, blur=False): the parameters are bound
FitEntry ==
    /\ pc = "fit_entry"
    /\ blur' = BlurParam(blurArg)
    /\ pc' = "model"
    /\ UNCHANGED <<failedAt, cliVars, dwi, blurArg, dkimodel, data, mask, fitLogs,
                   dkifit, saveLocals, saveLogs>>

\* dkimodel = dki.DiffusionKurtosisModel(dwi.gtab)
ModelOk ==
    /\ pc = "model"
    /\ dkimodel' = DiffusionKurtosisModel(dwi.gtab)
    /\ pc' = "getImage"
    /\ UNCHANGED <<failedAt, cliVars, dwi, blurArg, blur, data, mask, fitLogs,
                   dkifit, saveLocals, saveLogs>>

ModelFail ==
    /\ pc = "model"
    /\ Propagate("DiffusionKurtosisModel")
    /\ UNCHANGED <<cliVars, dwi, fitLocals, fitLogs, dkifit, saveLocals, saveLogs>>

\* data = dwi.getImage()
GetImageOk ==
    /\ pc = "getImage"
    /\ data' = getImage(dwi)
    /\ pc' = "blur"
    /\ UNCHANGED <<failedAt, cliVars, dwi, blurArg, blur, dkimodel, mask, fitLogs,
                   dkifit, saveLocals, saveLogs>>

GetImageFail ==
    /\ pc = "getImage"
    /\ Propagate("getImage")
    /\ UNCHANGED <<cliVars, dwi, fitLocals, fitLogs, dkifit, saveLocals, saveLogs>>

\* if blur: (not taken)
BlurSkip ==
    /\ pc = "blur"
    /\ ~blur
    /\ pc' = "mask"
    /\ UNCHANGED <<failedAt, cliVars, dwi, fitLocals, fitLogs, dkifit, saveLocals,
                   saveLogs>>

\* if blur: data = ndi.gaussian_filter(data, [0.5, 0.5, 0, 0])
BlurOk ==
    /\ pc = "blur"
    /\ blur
    /\ LET out == gaussian_filter(data, BlurSigma) IN
         /\ smoothCalls' = Append(smoothCalls,
                                  [input |-> data, sigma |-> BlurSigma, output |-> out])
         /\ data' = out
    /\ pc' = "mask"
    /\ UNCHANGED <<failedAt, cliVars, dwi, blurArg, blur, dkimodel, mask, fitCalls,
                   dkifit, saveLocals, saveLogs>>

BlurFail ==
    /\ pc = "blur"
    /\ blur
    /\ smoothCalls' = Append(smoothCalls,
                             [input |-> data, sigma |-> BlurSigma, output |-> Null])
    /\ Propagate("gaussian_filter")
    /\ UNCHANGED <<cliVars, dwi, fitLocals, fitCalls, dkifit, saveLocals, saveLogs>>

\* try: mask = dwi.mask / except AttributeError: mask = np.ones(data.shape[:3])
MaskStep ==
    /\ pc = "mask"
    /\ mask' = MaskFor(dwi, data)
    /\ pc' = "fit"
    /\ UNCHANGED <<failedAt, cliVars, dwi, blurArg, blur, dkimodel, data, fitLogs,
                   dkifit, saveLocals, saveLogs>>

\* return dkimodel.fit(data, mask)
FitOk ==
    /\ pc = "fit"
    /\ fitCalls' = Append(fitCalls, [model |-> dkimodel, data |-> data, mask |-> mask])
    /\ dkifit' = ModelFit(dkimodel, data, mask)
    /\ pc' = "fit_ret"
    /\ UNCHANGED <<failedAt, cliVars, dwi, fitLocals, smoothCalls, saveLocals, saveLogs>>

\* variant: the error of the fit is caught and main carries on
FitFailSwallowed ==
    /\ pc = "fit"
    /\ fitCalls' = Append(fitCalls, [model |-> dkimodel, data |-> data, mask |-> mask])
    /\ failedAt' = "fit"
    /\ pc' = "fit_ret"
    /\ UNCHANGED <<cliVars, dwi, fitLocals, smoothCalls, dkifit, saveLocals, saveLogs>>

FitFail ==
    /\ pc = "fit"
    /\ fitCalls' = Append(fitCalls, [model |-> dkimodel, data |-> data, mask |-> mask])
    /\ Propagate("fit")
    /\ UNCHANGED <<cliVars, dwi, fitLocals, smoothCalls, dkifit, saveLocals, saveLogs>>

NextFit ==
    \/ FitEntry
    \/ ModelOk
    \/ ModelFail
    \/ GetImageOk
    \/ GetImageFail
    \/ BlurSkip
    \/ BlurOk
    \/ BlurFail
    \/ MaskStep
    \/ FitOk
    \/ FitFail

\* a call fit_dki(dwi) or fit_dki(dwi, blur) on any DWI record
InitFit ==
    /\ pc = "fit_entry"
    /\ failedAt = "none"
    /\ argv = Null
    /\ mainArgs = Null
    /\ dwi \in DwiRecords
    /\ blurArg \in {"omitted", "True", "False"}
    /\ blur = Null
    /\ dkimodel = Null
    /\ data = Null
    /\ mask = Null
    /\ smoothCalls = <<>>
    /\ fitCalls = <<>>
    /\ dkifit = Null
    /\ paths = Null
    /\ source_affine = Null
    /\ source_header = Null
    /\ slot = 0
    /\ arr = Null
    /\ accessorCalls = <<>>
    /\ saveCalls = <<>>
    /\ disk = NoFiles

SpecFit == InitFit /\ [][NextFit]_vars

\* ------------------------------------------------------- save_metric_imgs

\* variant: affine and header taken from the wrong attributes
SaveEntrySwapped ==
    /\ pc = "save_entry"
    /\ source_affine' = dwi.img.header
    /\ source_header' = dwi.img.affine
    /\ slot' = 1
    /\ pc' = "slot"
    /\ UNCHANGED <<failedAt, cliVars, dwi, fitLocals, fitLogs, dkifit, paths, arr,
                   saveLogs>>

\* source_affine = dwi.img.affine; source_header = dwi.img.header
SaveEntry ==
    /\ pc = "save_entry"
    /\ source_affine' = dwi.img.affine
    /\ source_header' = dwi.img.header
    /\ slot' = 1
    /\ pc' = "slot"
    /\ UNCHANGED <<failedAt, cliVars, dwi, fitLocals, fitLogs, dkifit, paths, arr,
                   saveLogs>>

\* if <kind>_path is not None: (not taken)
SlotSkip ==
    /\ pc = "slot"
    /\ slot <= NumSlots
    /\ ~PathGiven(paths[SlotOrder[slot]])
    /\ slot' = slot + 1
    /\ UNCHANGED <<pc, failedAt, cliVars, dwi, fitLocals, fitLogs, dkifit, paths,
                   source_affine, source_header, arr, saveLogs>>

\* the first argument of save_image for fa, md, ad, rd: an attribute of dkifit
SlotAttribute ==
    /\ pc = "slot"
    /\ slot <= NumSlots
    /\ PathGiven(paths[SlotOrder[slot]])
    /\ SlotOrder[slot] \notin AccessorKinds
    /\ arr' = Metric(dkifit, SlotOrder[slot])
    /\ pc' = "write"
    /\ UNCHANGED <<failedAt, cliVars, dwi, fitLocals, fitLogs, dkifit, paths,
                   source_affine, source_header, slot, saveLogs>>

\* the first argument of save_image for mk, ak, rk: dkifit.mk(), .ak(), .rk()
SlotAccessorOk ==
    /\ pc = "slot"
    /\ slot <= NumSlots
    /\ PathGiven(paths[SlotOrder[slot]])
    /\ SlotOrder[slot] \in AccessorKinds
    /\ accessorCalls' = Append(accessorCalls, SlotOrder[slot])
    /\ arr' = Metric(dkifit, SlotOrder[slot])
    /\ pc' = "write"
    /\ UNCHANGED <<failedAt, cliVars, dwi, fitLocals, fitLogs, dkifit, paths,
                   source_affine, source_header, slot, saveCalls, disk>>

SlotAccessorFail ==
    /\ pc = "slot"
    /\ slot <= NumSlots
    /\ PathGiven(paths[SlotOrder[slot]])
    /\ SlotOrder[slot] \in AccessorKinds
    /\ accessorCalls' = Append(accessorCalls, SlotOrder[slot])
    /\ Propagate("accessor")
    /\ UNCHANGED <<cliVars, dwi, fitLocals, fitLogs, dkifit, saveLocals, saveCalls,
                   disk>>

\* image_io.save_image(<map>, source_affine, source_header, <kind>_path)
SlotWriteOk ==
    /\ pc = "write"
    /\ LET path == paths[SlotOrder[slot]] IN
         /\ saveCalls' = Append(saveCalls,
                [slot |-> slot, arr |-> arr, affine |-> source_affine,
                 header |-> source_header, path |-> path, ok |-> TRUE])
         /\ disk' = WriteFile(disk, path, FileOf(arr, source_affine, source_header))
    /\ slot' = slot + 1
    /\ pc' = "slot"
    /\ UNCHANGED <<failedAt, cliVars, dwi, fitLocals, fitLogs, dkifit, paths,
                   source_affine, source_header, arr, accessorCalls>>

\* variant: the files written so far are removed when a write fails
SlotWriteFailRollback ==
    /\ pc = "write"
    /\ saveCalls' = Append(saveCalls,
           [slot |-> slot, arr |-> arr, affine |-> source_affine,
            header |-> source_header, path |-> paths[SlotOrder[slot]], ok |-> FALSE])
    /\ disk' = NoFiles
    /\ Propagate("save_image")
    /\ UNCHANGED <<cliVars, dwi, fitLocals, fitLogs, dkifit, saveLocals, accessorCalls>>

SlotWriteFail ==
    /\ pc = "write"
    /\ saveCalls' = Append(saveCalls,
           [slot |-> slot, arr |-> arr, affine |-> source_affine,
            header |-> source_header, path |-> paths[SlotOrder[slot]], ok |-> FALSE])
    /\ Propagate("save_image")
    /\ UNCHANGED <<cliVars, dwi, fitLocals, fitLogs, dkifit, saveLocals,
                   accessorCalls, disk>>

\* the end of the body: save_metric_imgs returns
SaveReturn ==
    /\ pc = "slot"
    /\ slot = NumSlots + 1
    /\ pc' = "done"
    /\ UNCHANGED <<failedAt, cliVars, dwi, fitLocals, fitLogs, dkifit, saveLocals,
                   saveLogs>>

NextSave ==
    \/ SaveEntry
    \/ SlotSkip
    \/ SlotAttribute
    \/ SlotAccessorOk
    \/ SlotAccessorFail
    \/ SlotWriteOk
    \/ SlotWriteFail
    \/ SaveReturn

\* the DWI records save_metric_imgs is called with: every affine and header
SaveDwis == {d \in DwiRecords :
               /\ ~HasMask(d)
               /\ d.img.data.shape = <<1, 1, 1, 1>>}

\* a fit result of a DWI record, as fit_dki returns it without smoothing
FitResultOf(d) ==
    ModelFit(DiffusionKurtosisModel(d.gtab), getImage(d), MaskFor(d, getImage(d)))

\* a call save_metric_imgs(dwi, dkifit, ...) with any of the paths given
InitSave ==
    /\ pc = "save_entry"
    /\ failedAt = "none"
    /\ argv = Null
    /\ mainArgs = Null
    /\ dwi \in SaveDwis
    /\ blurArg = Null
    /\ blur = Null
    /\ dkimodel = Null
    /\ data = Null
    /\ mask = Null
    /\ smoothCalls = <<>>
    /\ fitCalls = <<>>
    /\ dkifit = FitResultOf(dwi)
    /\ paths \in PathArgs
    /\ source_affine = Null
    /\ source_header = Null
    /\ slot = 0
    /\ arr = Null
    /\ accessorCalls = <<>>
    /\ saveCalls = <<>>
    /\ disk = NoFiles

SpecSave == InitSave /\ [][NextSave]_vars

\* ------------------------------------------------- main and the command line

\* parser.parse_args(): the namespace of a command line with the given flags
Namespace(mask_flag, blur_flag, out) ==
    [nifti |-> "dwi.nii", bval |-> "dwi.bval", bvec |-> "dwi.bvec",
     mask |-> mask_flag, blur |-> blur_flag,
     fa |-> out["fa"], md |-> out["md"], ad |-> out["ad"], rd |-> out["rd"],
     mk |-> out["mk"], ak |-> out["ak"], rk |-> out["rk"]]

\* the images and masks the input files may hold
LoadImages == {[data |-> RawData(<<1, 1, 1, 1>>), affine |-> "affine_A", header |-> "header_A"],
               [data |-> RawData(<<1, 2, 1, 2>>), affine |-> "affine_B", header |-> "header_B"]}

\* image_io.load_dwi(nifti_path, bval_path, bvec_path, mask_path): the records it may
\* return; the record has a mask exactly when a mask path is given
load_dwi(mask_path) ==
    IF mask_path = None
    THEN {DwiNoMask(img) : img \in LoadImages}
    ELSE UNION {{DwiMasked(img, m) : m \in MaskFiles(FirstThree(img.data.shape))} :
                  img \in LoadImages}

\* variant: --ad and --rd passed to each other's parameter
CliCallSwapped ==
    /\ pc = "cli"
    /\ mainArgs' = [nifti_path |-> argv.nifti, bval_path |-> argv.bval,
                    bvec_path |-> argv.bvec, mask_path |-> argv.mask,
                    blur |-> argv.blur,
                    fa_path |-> argv.fa, md_path |-> argv.md, ad_path |-> argv.rd,
                    rd_path |-> argv.ad, mk_path |-> argv.mk, ak_path |-> argv.ak,
                    rk_path |-> argv.rk]
    /\ pc' = "load"
    /\ UNCHANGED <<failedAt, argv, dwi, fitLocals, fitLogs, dkifit, saveLocals,
                   saveLogs>>

\* main(args.nifti, args.bval, args.bvec, args.mask, blur=args.blur, fa_path=args.fa, ...)
CliCall ==
    /\ pc = "cli"
    /\ mainArgs' = [nifti_path |-> argv.nifti, bval_path |-> argv.bval,
                    bvec_path |-> argv.bvec, mask_path |-> argv.mask,
                    blur |-> argv.blur,
                    fa_path |-> argv.fa, md_path |-> argv.md, ad_path |-> argv.ad,
                    rd_path |-> argv.rd, mk_path |-> argv.mk, ak_path |-> argv.ak,
                    rk_path |-> argv.rk]
    /\ pc' = "load"
    /\ UNCHANGED <<failedAt, argv, dwi, fitLocals, fitLogs, dkifit, saveLocals,
                   saveLogs>>

\* dwi = image_io.load_dwi(nifti_path, bval_path, bvec_path, mask_path)
LoadOk ==
    /\ pc = "load"
    /\ dwi' \in load_dwi(mainArgs.mask_path)
    /\ pc' = "main_fit"
    /\ UNCHANGED <<failedAt, cliVars, fitLocals, fitLogs, dkifit, saveLocals, saveLogs>>

LoadFail ==
    /\ pc = "load"
    /\ Propagate("load_dwi")
    /\ UNCHANGED <<cliVars, dwi, fitLocals, fitLogs, dkifit, saveLocals, saveLogs>>

\* dkifit = fit_dki(dwi, blur): the call
MainFit ==
    /\ pc = "main_fit"
    /\ blurArg' = IF mainArgs.blur THEN "True" ELSE "False"
    /\ pc' = "fit_entry"
    /\ UNCHANGED <<failedAt, cliVars, dwi, blur, dkimodel, data, mask, fitLogs, dkifit,
                   saveLocals, saveLogs>>

\* save_metric_imgs(dwi, dkifit, fa_path=fa_path, md_path=md_path, ...): the call
MainSave ==
    /\ pc = "fit_ret"
    /\ paths' = [fa |-> mainArgs.fa_path, md |-> mainArgs.md_path,
                 ad |-> mainArgs.ad_path, rd |-> mainArgs.rd_path,
                 mk |-> mainArgs.mk_path, ak |-> mainArgs.ak_path,
                 rk |-> mainArgs.rk_path]
    /\ pc' = "save_entry"
    /\ UNCHANGED <<failedAt, cliVars, dwi, fitLocals, fitLogs, dkifit, source_affine,
                   source_header, slot, arr, saveLogs>>

Next ==
    \/ CliCall
    \/ LoadOk
    \/ LoadFail
    \/ MainFit
    \/ NextFit
    \/ MainSave
    \/ NextSave

\* the script is started with any of the optional flags
Init ==
    /\ pc = "cli"
    /\ failedAt = "none"
    /\ argv \in {Namespace(m, b, out) :
                   m \in {None, "mask.nii"}, b \in BOOLEAN, out \in PathArgs}
    /\ mainArgs = Null
    /\ dwi = Null
    /\ blurArg = Null
    /\ blur = Null
    /\ dkimodel = Null
    /\ data = Null
    /\ mask = Null
    /\ smoothCalls = <<>>
    /\ fitCalls = <<>>
    /\ dkifit = Null
    /\ paths = Null
    /\ source_affine = Null
    /\ source_header = Null
    /\ slot = 0
    /\ arr = Null
    /\ accessorCalls = <<>>
    /\ saveCalls = <<>>
    /\ disk = NoFiles

Spec == Init /\ [][Next]_vars

\* ------------------------------------------------------------ properties

\* the calls of save_image, or of an accessor, made from the `if` of a slot
SaveCallsOf(k) == {i \in 1..Len(saveCalls) : saveCalls[i].slot = SlotIndex(k)}
AccessorCallsOf(k) == {i \in 1..Len(accessorCalls) : accessorCalls[i] = k}

AllOnes(m, shape3) ==
    /\ m.shape = shape3
    /\ DOMAIN m.vox = (1..shape3[1]) \X (1..shape3[2]) \X (1..shape3[3])
    /\ \A i \in DOMAIN m.vox : m.vox[i] = 1

\* C1: save_metric_imgs calls save_image for a slot exactly when the slot's path is
\* not None (once, when every write succeeds), calls mk(), ak(), rk() only for slots
\* whose path is not None, and with all seven paths None writes nothing, computes
\* nothing and raises nothing.
C1_WritesExactlyRequested ==
    /\ \A k \in Kinds : paths[k] = None => SaveCallsOf(k) = {} /\ AccessorCallsOf(k) = {}
    /\ \A i \in 1..Len(saveCalls) : saveCalls[i].path # None
    /\ pc = "done" =>
         \A k \in Kinds : Cardinality(SaveCallsOf(k)) = IF paths[k] # None THEN 1 ELSE 0
    /\ (\A k \in Kinds : paths[k] = None) =>
         /\ saveCalls = <<>>
         /\ accessorCalls = <<>>
         /\ disk = NoFiles
         /\ pc # "failed"

C1_Witness ==
    /\ pc = "done"
    /\ paths["fa"] = None /\ paths["md"] # None /\ paths["ad"] = None
    /\ paths["rd"] = None /\ paths["mk"] # None /\ paths["ak"] = None
    /\ paths["rk"] = None
    /\ Len(saveCalls) = 2
    /\ accessorCalls = <<"mk">>

\* C2: every call of save_image made by save_metric_imgs passes the affine and the
\* header of the source image, dwi.img.affine and dwi.img.header.
C2_SourceAffineHeader ==
    \A i \in 1..Len(saveCalls) :
        /\ saveCalls[i].affine = dwi.img.affine
        /\ saveCalls[i].header = dwi.img.header

C2_Witness ==
    /\ Len(saveCalls) = NumSlots
    /\ dwi.img.affine = "affine_B"
    /\ dwi.img.header = "header_A"

\* C3: when the DWI record has a mask, the mask argument of the model's fit call is
\* that mask, with or without smoothing.
C3_MaskPassedUnchanged ==
    HasMask(dwi) => \A i \in 1..Len(fitCalls) : fitCalls[i].mask = dwi.mask

C3_Witness ==
    /\ pc = "fit_ret"
    /\ HasMask(dwi)
    /\ \E i \in DOMAIN dwi.mask.vox : dwi.mask.vox[i] = 0
    /\ \E i \in DOMAIN dwi.mask.vox : dwi.mask.vox[i] = 1
    /\ blur
    /\ Len(fitCalls) = 1

\* C4: when the DWI record has no mask, the mask argument of the fit call is an array
\* of ones whose shape is the first three dimensions of the voxel array, and the
\* missing mask is not an error: the run fails only in a call of a collaborator.
C4_SynthesizedOnesMask ==
    /\ ~HasMask(dwi) =>
         \A i \in 1..Len(fitCalls) :
            AllOnes(fitCalls[i].mask,
                    <<dwi.img.data.shape[1], dwi.img.data.shape[2], dwi.img.data.shape[3]>>)
    /\ ~HasMask(dwi) /\ pc = "failed" =>
         failedAt \in {"DiffusionKurtosisModel", "getImage", "gaussian_filter", "fit"}
    /\ ~HasMask(dwi) /\ pc \in {"fit", "fit_ret"} => failedAt = "none" /\ mask # Null

C4_Witness ==
    /\ pc = "fit_ret"
    /\ ~HasMask(dwi)
    /\ dwi.img.data.shape = <<2, 1, 2, 2>>
    /\ Len(fitCalls) = 1

\* C5: called with blur=True, fit_dki calls the smoothing once, on the voxel array of
\* the record, with sigma [0.5, 0.5, 0, 0] (in tenths: 5, 5, 0, 0) for every shape,
\* and the data of the fit call is what the smoothing returned.
C5_BlurSigmaAndData ==
    blurArg = "True" =>
        /\ Len(smoothCalls) <= 1
        /\ pc \in {"mask", "fit", "fit_ret"} => Len(smoothCalls) = 1
        /\ \A i \in 1..Len(smoothCalls) :
              /\ smoothCalls[i].input = getImage(dwi)
              /\ smoothCalls[i].sigma = <<5, 5, 0, 0>>
        /\ \A i \in 1..Len(fitCalls) :
              /\ Len(smoothCalls) = 1
              /\ fitCalls[i].data = smoothCalls[1].output

C5_Witness ==
    /\ pc = "fit_ret"
    /\ blurArg = "True"
    /\ dwi.img.data.shape = <<1, 2, 2, 1>>
    /\ Len(smoothCalls) = 1
    /\ Len(fitCalls) = 1

\* C6: called with blur=False or without a blur argument, fit_dki never calls the
\* smoothing and the data of the fit call is the array getImage() returned.
C6_NoBlurRawData ==
    blurArg \in {"False", "omitted"} =>
        /\ smoothCalls = <<>>
        /\ \A i \in 1..Len(fitCalls) : fitCalls[i].data = getImage(dwi)

C6_Witness ==
    /\ pc = "fit_ret"
    /\ blurArg = "omitted"
    /\ Len(fitCalls) = 1

\* the calls of save_image that returned, in the order they were made
Completed == SelectSeq(saveCalls, LAMBDA c : c.ok)

\* the last completed call of save_image that wrote to a path
LastWriteTo(p) ==
    LET done == Completed
        last == CHOOSE i \in 1..Len(done) :
                    /\ done[i].path = p
                    /\ \A j \in (i + 1)..Len(done) : done[j].path # p
    IN done[last]

\* every file on disk is what the last completed write to its path left there
DiskIsCompletedWrites ==
    /\ DOMAIN disk = {Completed[i].path : i \in 1..Len(Completed)}
    /\ \A p \in DOMAIN disk :
          /\ disk[p].arr = LastWriteTo(p).arr
          /\ disk[p].affine = LastWriteTo(p).affine
          /\ disk[p].header = LastWriteTo(p).header

\* the state after a failure at slot N of save_metric_imgs
FailedSaveState ==
    pc = "failed" /\ failedAt \in {"accessor", "save_image"} =>
        /\ \A k \in Kinds :
              Cardinality({i \in 1..Len(Completed) : Completed[i].slot = SlotIndex(k)})
                = IF SlotIndex(k) < slot /\ paths[k] # None THEN 1 ELSE 0
        /\ \A i \in 1..Len(saveCalls) : saveCalls[i].slot <= slot
        /\ \A i \in 1..Len(accessorCalls) : SlotIndex(accessorCalls[i]) <= slot
        /\ DiskIsCompletedWrites

\* C7: when the write or the mk/ak/rk computation of a requested map fails in
\* save_metric_imgs, the run ends there: every requested map before it has been
\* written and its file is still on disk as written, no map after it is computed or
\* written, and nothing happens after the failure.
C7_FailedWriteKeepsEarlierFiles ==
    /\ []FailedSaveState
    /\ [][pc # "failed" /\ (pc' = "failed" => disk' = disk)]_vars

C7_Witness ==
    /\ pc = "failed"
    /\ failedAt = "save_image"
    /\ slot = 6
    /\ Cardinality(DOMAIN disk) >= 2
    /\ paths["rk"] # None

\* the calls made before save_metric_imgs is entered
PreSaveCalls == {"load_dwi", "DiffusionKurtosisModel", "getImage", "gaussian_filter", "fit"}

\* a failure ends the run where it happens, and a failure before the writer leaves
\* no output; the writer runs only after the one fit, the fit only after the load
FailureEndsRun ==
    /\ failedAt # "none" <=> pc = "failed"
    /\ failedAt \in PreSaveCalls \cup {"none", "accessor", "save_image"}
    /\ failedAt \in PreSaveCalls =>
          /\ saveCalls = <<>>
          /\ accessorCalls = <<>>
          /\ disk = NoFiles
    /\ (saveCalls # <<>> \/ accessorCalls # <<>>) =>
          Len(fitCalls) = 1 /\ dkifit # Null /\ dwi # Null
    /\ fitCalls # <<>> => dwi # Null

\* C8: in a run of main no failure is caught except the missing mask: a failure of the
\* loader, of the model construction, of getImage, of the smoothing or of the fit ends
\* the run, and since main loads, fits and writes in that order, no save_image call
\* has been made and no output file exists.
C8_FailureBeforeWriterLeavesNoOutput ==
    /\ []FailureEndsRun
    /\ [][pc # "failed"]_vars

C8_Witness ==
    /\ pc = "failed"
    /\ failedAt = "fit"
    /\ argv.fa # None
    /\ argv.mk # None
    /\ argv.mask = None

\* the output flags of the command line that were given
GivenFlags == {k \in Kinds : argv[k] # None}

\* C9: after a successful run of the script with output flags given pairwise distinct
\* paths, the files created are exactly the paths given, the file of a flag holds the
\* map of that flag's kind of the one fit result of the run (for mk, ak, rk the
\* result of the accessor), with the source affine and header, and without --mask the
\* fit was made with a mask of ones over the spatial shape.
C9_FilesAreTheFlagsMaps ==
    (/\ pc = "done"
     /\ \A k1, k2 \in GivenFlags : k1 # k2 => argv[k1] # argv[k2]) =>
        /\ DOMAIN disk = {argv[k] : k \in GivenFlags}
        /\ Len(fitCalls) = 1
        /\ dkifit.data = fitCalls[1].data
        /\ dkifit.mask = fitCalls[1].mask
        /\ dkifit.model = fitCalls[1].model
        /\ \A k \in GivenFlags :
              /\ disk[argv[k]].arr.kind = k
              /\ disk[argv[k]].arr.fit = dkifit
              /\ disk[argv[k]].affine = dwi.img.affine
              /\ disk[argv[k]].header = dwi.img.header
              /\ k \in AccessorKinds => Cardinality(AccessorCallsOf(k)) = 1
        /\ argv.mask = None =>
              AllOnes(fitCalls[1].mask,
                      <<dwi.img.data.shape[1], dwi.img.data.shape[2],
                        dwi.img.data.shape[3]>>)

C9_Witness ==
    /\ pc = "done"
    /\ argv.mask = None
    /\ ~argv.blur
    /\ GivenFlags = {"fa", "mk"}
    /\ argv.fa # argv.mk
    /\ Cardinality(DOMAIN disk) = 2
    /\ dwi.img.data.shape = <<1, 2, 1, 2>>

\* the order of the `if` blocks in the body of save_metric_imgs
KindRank == [fa |-> 1, md |-> 2, ad |-> 3, rd |-> 4, mk |-> 5, ak |-> 6, rk |-> 7]

\* the kind latest in the order among the kinds given a path
LastKindAt(p) ==
    CHOOSE k \in Kinds :
        /\ paths[k] = p
        /\ \A k2 \in Kinds : paths[k2] = p => KindRank[k2] <= KindRank[k]

\* C10: save_metric_imgs makes its writes in the order fa, md, ad, rd, mk, ak, rk, at
\* most one per slot, each to the path of its own slot; when it has returned, every
\* requested slot has been written, also those sharing a path, and the file at a path
\* holds the map of the latest slot in this order that was given the path.
C10_FixedOrderLastWriterWins ==
    /\ \A i, j \in 1..Len(saveCalls) :
          i < j => KindRank[saveCalls[i].arr.kind] < KindRank[saveCalls[j].arr.kind]
    /\ \A i \in 1..Len(saveCalls) : saveCalls[i].path = paths[saveCalls[i].arr.kind]
    /\ pc = "done" =>
          /\ \A k \in Kinds :
                paths[k] # None =>
                    \E i \in 1..Len(saveCalls) :
                        saveCalls[i].arr.kind = k /\ saveCalls[i].ok
          /\ DOMAIN disk = {paths[k] : k \in {kk \in Kinds : paths[kk] # None}}
          /\ \A p \in DOMAIN disk : disk[p].arr.kind = LastKindAt(p)

C10_Witness ==
    /\ pc = "done"
    /\ paths["fa"] # None
    /\ paths["fa"] = paths["rk"]
    /\ paths["md"] # None
    /\ paths["md"] # paths["fa"]
    /\ disk[paths["fa"]].arr.kind = "rk"
    /\ Len(saveCalls) >= 3

====
